---- MODULE Spec2Model ----
(***************************************************************************)
(* Worker pool / job queue of discord-agent-js.                            *)
(*                                                                         *)
(*   pool   src/src/agents/pool.ts          (WorkerPool)                   *)
(*   worker src/src/agents/worker/index.ts  (Worker, main)                 *)
(*   job    src/src/agents/index.ts         (Job, Job.sortListByKeys)      *)
(*   store  src/unnamed/part_009            (worker/utilities: the redis   *)
(*                                           keys worker:{id}:status and   *)
(*                                           worker:{id}:job)              *)
(*                                                                         *)
(* The pool runs on one event loop, every worker on a thread of its own,   *)
(* and all of them talk to one redis server.  Every `await` of a redis     *)
(* command is a step of its own: the command acts on the store at that     *)
(* step, and the code after the await (up to the next await) runs with it. *)
(* Where the code acts on a reply after other threads may have written     *)
(* (the pool's status read before postMessage), the reply and the code     *)
(* that uses it are two steps.                                             *)
(***************************************************************************)
EXTENDS Integers, Sequences, FiniteSets, Bags, TLC

\* ------------------------------------------------------------------ bounds
\* number of addJob calls of a run
MaxJobs == 2
\* number of worker ids (the pool's configured minimum, workers.min)
MinWorkers == 2
\* largest priority passed to addJob
MaxPriority == 1
\* Date.now() of the first addJob
Epoch == 1000
\* number of postMessage calls of the pool in a run
MaxDispatch == 2
\* number of assignAvailableWorkers invocations in flight at a time
MaxPasses == 2
\* number of worker ids and of job ids of the run before a restart
MaxOld == 1
\* chunkMessage on its own: the texts of up to MaxText characters and the
\* limits 1 .. MaxLength
MaxText == 5
MaxLength == 2
\* the start of a worker on its own: up to MaxEngines configured engines
MaxEngines == 3
\* workers.max of the pool's configuration
MaxWorkers == 2
\* number of calls of addWorker, removeWorker, shutdown and getWorkerStatus
\* after initialize
MaxCalls == 2
\* sortListByKeys on its own: the priorities -SortMinus .. SortMax, the
\* timestamps Epoch .. Epoch + SortTicks, the job ids 1 .. MaxSortLen, and
\* lists of at most MaxSortLen keys
SortMinus == 2
SortMax == 10
SortTicks == 2
MaxSortLen == 2

\* ------------------------------------------------------- program constants
\* enum STATE
INITIALIZING == 0
IDLE         == 1
BUSY         == 2
TERMINATING  == 3

WorkerIds == 1 .. MinWorkers
JobIds    == 1 .. MaxJobs
\* the empty job id '' that processJob writes to worker:{id}:job
NoJob     == 0
\* the worker id of the literal key 'worker:*:job'
Star      == 0
\* the reply of GET for a key that does not exist
Null      == -1

\* ------------------------------------------------------------------ strings
\* A string is the sequence of its UTF-16 code units.
Colon == 58
Minus == 45
Zero  == 48
\* the characters of a text: '\n', ' ' and a letter
Newline == 10
Space == 32
Letter == 65

RECURSIVE Digits(_)
\* the decimal digits of n >= 0
Digits(n) ==
  IF n < 10 THEN << Zero + n >>
  ELSE Digits(n \div 10) \o << Zero + (n % 10) >>

\* String(n) of a number, as Array.prototype.join and template literals do
NumStr(n) == IF n < 0 THEN << Minus >> \o Digits(-n) ELSE Digits(n)

RECURSIVE StrLess(_, _)
\* a < b of two strings: by code unit, a proper prefix is smaller
StrLess(a, b) ==
  IF b = << >> THEN FALSE
  ELSE IF a = << >> THEN TRUE
  ELSE IF Head(a) # Head(b) THEN Head(a) < Head(b)
  ELSE StrLess(Tail(a), Tail(b))

\* ---------------------------------------------------------------- variables
VARIABLES
  jobStore,      \* redis: the keys job:{jobId}:{priority}:{createdAt}
  statusStore,   \* redis: worker:{id}:status, a function on the ids that have the key
  wjobStore,     \* redis: worker:{id}:job, a function on the ids that have the key
  channel,       \* redis pub/sub: what was published on 'discord'
  workers,       \* WorkerPool.workers: the registered ids, in insertion order
  initialized,   \* WorkerPool.initialize has run
  nextJob,       \* the next fresh job id
  now,           \* the last value Date.now() returned
  pendingSet,    \* addJob: job keys whose SET has not reached the store yet
  passes,        \* the assignAvailableWorkers invocations in flight (a bag)
  toPool,        \* messages posted by workers that the pool has not handled
  wpc,           \* per worker thread: where main() is
  wlocal,        \* per worker thread: Worker.status
  inbox,         \* per worker thread: dispatches posted and not yet received
  chains,        \* per worker thread: the onMessage invocations in flight (a bag)
  dispatched,    \* history: the number of postMessage calls of the pool
  dispatchCount, \* history: per job id, how often it was posted (2 = twice or more)
  finished,      \* history: the job ids of the processJob calls that ran to their end
  sentLog,       \* history: every message a worker ever posted to the pool
  lastPost,      \* history: the postMessage of the step just taken, or NoPost
  recovery,      \* history: per worker thread, what setupRedis found and did for a BUSY record
  failed,        \* history: the << worker, job id >> of the loadJob calls that threw
  sort,          \* a call of Job.sortListByKeys on its own: argument and result
  units,         \* per worker id: the threads started for it that have not been terminated
  api,           \* the calls of the pool's public methods after initialize, and
                 \* the getWorkerStatus call in flight
  chunk,         \* a call of chunkMessage on its own: arguments and result
  setup          \* the start of a worker thread on its own: the configured engines,
                 \* Worker.llmClients and where main() is

vars == << jobStore, statusStore, wjobStore, channel, workers, initialized,
           nextJob, now, pendingSet, passes, toPool, wpc, wlocal, inbox,
           chains, dispatched, dispatchCount, finished, sentLog, lastPost,
           recovery, failed, sort, units, api, chunk, setup >>

NoPost == [worker |-> 0]

\* a thread that has not read a BUSY status at its start
NoRecovery == [busy |-> FALSE, job |-> Null, resumed |-> Null, ready |-> Null]

\* what WorkerPool.getWorkerStatus returns for an id without a handle
Undefined == -2

\* no call of a public method yet
NoCall == [calls |-> 0, down |-> FALSE, id |-> 0, pc |-> "idle", registered |-> FALSE,
           commands |-> 0, held |-> Null, result |-> Null]

\* no call of chunkMessage on its own
NoChunk == [text |-> << >>, maxLength |-> 0, out |-> << >>, done |-> FALSE]

\* no worker thread started on its own
NoSetup == [config |-> << >>, pc |-> "none", llmClients |-> { }, built |-> { }]

\* no call of sortListByKeys on its own
NoSort == [in |-> << >>, out |-> << >>, done |-> FALSE]

\* ---------------------------------------------------------------- Job
\* Job.key / the jobKey of addJob: the segments of job:{jobId}:{priority}:{createdAt}
JobKey(jobId, priority, createdAt) ==
  [jobId |-> jobId, priority |-> NumStr(priority), createdAt |-> NumStr(createdAt)]

\* the sortKey `${priority}:${createdAt}` of a key
SortKeyOf(k) == k.priority \o << Colon >> \o k.createdAt

\* a test that does not look at createdAt
MalformedNoTime(k) == k.jobId = NoJob \/ k.priority = << >>

\* !jobId || !priority || !createdAt
Malformed(k) == k.jobId = NoJob \/ k.priority = << >> \/ k.createdAt = << >>

RECURSIVE ParseKeys(_)
\* the reduce of sortListByKeys: the well-formed keys, in the order given
ParseKeys(keyList) ==
  IF keyList = << >> THEN << >>
  ELSE LET k == Head(keyList)
       IN  IF Malformed(k) THEN ParseKeys(Tail(keyList))
           ELSE << [jobId |-> k.jobId, jobKey |-> k, sortKey |-> SortKeyOf(k)] >>
                \o ParseKeys(Tail(keyList))

\* a comparator that puts the greater sortKey first
CompareDescending(a, b) ==
  IF a.sortKey = b.sortKey THEN 0
  ELSE IF StrLess(a.sortKey, b.sortKey) THEN 1 ELSE -1

\* the comparator of sortListByKeys
Compare(a, b) ==
  IF a.sortKey = b.sortKey THEN 0
  ELSE IF StrLess(a.sortKey, b.sortKey) THEN -1 ELSE 1

RECURSIVE Insert(_, _)
\* e put into the sorted list s behind every element that is not greater
Insert(e, s) ==
  IF s = << >> THEN << e >>
  ELSE IF Compare(e, Head(s)) < 0 THEN << e >> \o s
  ELSE << Head(s) >> \o Insert(e, Tail(s))

RECURSIVE StableSort(_)
\* Array.prototype.sort with that comparator (a stable sort)
StableSort(s) ==
  IF s = << >> THEN << >>
  ELSE Insert(s[Len(s)], StableSort(SubSeq(s, 1, Len(s) - 1)))

\* Job.sortListByKeys
SortListByKeys(keyList) == StableSort(ParseKeys(keyList))

\* a KEYS that finds nothing
KeyListsNone(S) == { << >> }

\* the orders in which KEYS can return a set of keys
KeyLists(S) ==
  { s \in [1 .. Cardinality(S) -> S] : \A i, j \in DOMAIN s : i # j => s[i] # s[j] }

\* ---------------------------------------------------------------- store
\* getActiveWorkers: GET of the one key named 'worker:*:job'
GetActiveWorkers == IF Star \in DOMAIN wjobStore THEN wjobStore[Star] ELSE Null

\* a reading that takes every stored status for TERMINATING
StatusOfTerminating(v) == TERMINATING

\* Number(status) || STATE.IDLE
StatusOf(v) == IF v = 0 THEN IDLE ELSE v

\* activeJobs?.includes(job.jobId)
ActiveIncludes(activeJobs, jobId) ==
  IF activeJobs = Null THEN FALSE ELSE activeJobs = jobId

RECURSIVE FilterActive(_, _)
\* jobList.filter(job => !activeJobs?.includes(job.jobId))
FilterActive(jobList, activeJobs) ==
  IF jobList = << >> THEN << >>
  ELSE IF ActiveIncludes(activeJobs, Head(jobList).jobId)
       THEN FilterActive(Tail(jobList), activeJobs)
       ELSE << Head(jobList) >> \o FilterActive(Tail(jobList), activeJobs)

\* what worker:{id}:job holds for the workers that have the key
ClaimedJobs == { wjobStore[w] : w \in DOMAIN wjobStore } \ { NoJob }

\* SET key value
Put(f, k, v) == [ x \in DOMAIN f \cup { k } |-> IF x = k THEN v ELSE f[x] ]

\* ---------------------------------------------------------------- initial state
\* new WorkerPool() on an empty store, no worker thread started
Init ==
  /\ jobStore = { }
  /\ statusStore = << >>
  /\ wjobStore = << >>
  /\ channel = << >>
  /\ workers = << >>
  /\ initialized = FALSE
  /\ nextJob = 1
  /\ now = Epoch
  /\ pendingSet = { }
  /\ passes = EmptyBag
  /\ toPool = { }
  /\ wpc = [ w \in WorkerIds |-> "none" ]
  /\ wlocal = [ w \in WorkerIds |-> INITIALIZING ]
  /\ inbox = [ w \in WorkerIds |-> << >> ]
  /\ chains = [ w \in WorkerIds |-> EmptyBag ]
  /\ dispatched = 0
  /\ dispatchCount = [ j \in JobIds |-> 0 ]
  /\ finished = { }
  /\ sentLog = { }
  /\ lastPost = NoPost
  /\ recovery = [ w \in WorkerIds |-> NoRecovery ]
  /\ failed = { }
  /\ sort = NoSort
  /\ units = [ w \in WorkerIds |-> 0 ]
  /\ api = NoCall
  /\ chunk = NoChunk
  /\ setup = NoSetup

\* ---------------------------------------------------------------- pool
Registered == { workers[i] : i \in DOMAIN workers }

\* an assignAvailableWorkers invocation that has just been called
NewPass == [pc |-> "getJobs", jobList |-> << >>, activeJobs |-> Null, i |-> 0,
            claimed |-> { }, sent |-> << >>]

\* void this.assignAvailableWorkers()
Spawn(ps) == ps (+) SetToBag({ NewPass })

\* there is room for one more invocation
CanSpawn == BagCardinality(passes) < MaxPasses

\* WorkerPool.addWorker for the ids: one thread and one handle each
AddWorkers(ids) ==
  /\ workers' = workers \o ids
  /\ wpc' = [ w \in DOMAIN wpc |->
                IF \E i \in DOMAIN ids : ids[i] = w THEN "boot" ELSE wpc[w] ]
  /\ units' = [ w \in DOMAIN units |->
                  IF \E i \in DOMAIN ids : ids[i] = w THEN units[w] + 1 ELSE units[w] ]

\* no new worker is given an id
FreshIdsNone(n) == { << >> }

\* the fresh ids crypto.randomUUID() gives to n new workers
FreshIds(n) ==
  LET free == DOMAIN wpc \ (Registered \cup DOMAIN statusStore)
  IN  { s \in [1 .. n -> free] : \A i, j \in 1 .. n : i < j => s[i] < s[j] }

\* WorkerPool.initialize: a handle for every worker:*:status key, then fresh
\* workers up to workers.min
Initialize ==
  /\ ~initialized
  /\ initialized' = TRUE
  /\ LET records == DOMAIN statusStore
         missing == IF Cardinality(records) < MinWorkers
                    THEN MinWorkers - Cardinality(records) ELSE 0
     IN  \E known \in KeyLists(records) : \E fresh \in FreshIds(missing) :
           AddWorkers(known \o fresh)
  /\ lastPost' = NoPost
  /\ UNCHANGED << jobStore, statusStore, wjobStore, channel, nextJob, now,
                  pendingSet, passes, toPool, wlocal, inbox, chains, dispatched,
                  dispatchCount, finished, sentLog, recovery, failed, sort, api,
                  chunk, setup >>

\* what Date.now() can return in the next addJob: the first call is at Epoch, a
\* later one in the same millisecond as the one before it or in the next
Clock == IF nextJob = 1 THEN { now } ELSE { now, now + 1 }

\* WorkerPool.addJob up to the return of the call: the Job is built and its SET
\* is sent, not awaited
AddJob ==
  /\ nextJob <= MaxJobs
  /\ \E priority \in 0 .. MaxPriority : \E createdAt \in Clock :
       /\ pendingSet' = pendingSet \cup { JobKey(nextJob, priority, createdAt) }
       /\ now' = createdAt
  /\ nextJob' = nextJob + 1
  /\ lastPost' = NoPost
  /\ UNCHANGED << jobStore, statusStore, wjobStore, channel, workers, initialized,
                  passes, toPool, wpc, wlocal, inbox, chains, dispatched,
                  dispatchCount, finished, sentLog,
                  recovery, failed, sort,
                  units, api,
                  chunk, setup >>

\* WorkerPool.addJob, the .then of the SET: the key is in the store and a pass starts
AddJobStored ==
  /\ \E k \in pendingSet :
       /\ pendingSet' = pendingSet \ { k }
       /\ jobStore' = jobStore \cup { k }
  /\ CanSpawn
  /\ passes' = Spawn(passes)
  /\ lastPost' = NoPost
  /\ UNCHANGED << statusStore, wjobStore, channel, workers, initialized, nextJob,
                  now, toPool, wpc, wlocal, inbox, chains, dispatched,
                  dispatchCount, finished, sentLog,
                  recovery, failed, sort,
                  units, api,
                  chunk, setup >>

\* WorkerPool.getJobs: the replies KEYS job:* can give, sorted
GetJobs == { SortListByKeys(keyList) : keyList \in KeyLists(jobStore) }

\* the pool's handler of a worker's message, case 'response:ready': a pass
\* starts when getJobs() is not empty
HandleReady ==
  /\ \E m \in toPool :
       /\ m.action = "response:ready"
       /\ toPool' = toPool \ { m }
  /\ \E jobs \in GetJobs :
       /\ Len(jobs) > 0 => CanSpawn
       /\ passes' = IF Len(jobs) > 0 THEN Spawn(passes) ELSE passes
  /\ lastPost' = NoPost
  /\ UNCHANGED << jobStore, statusStore, wjobStore, channel, workers, initialized,
                  nextJob, now, pendingSet, wpc, wlocal, inbox, chains, dispatched,
                  dispatchCount, finished, sentLog,
                  recovery, failed, sort,
                  units, api,
                  chunk, setup >>

\* the bag with one p replaced by q
Step(ps, p, q) == (ps (-) SetToBag({ p })) (+) SetToBag({ q })

\* the invocation p, now q, at the head of the for loop of assignAvailableWorkers:
\* it moves to the next key of this.workers, or the pass ends
Advance(p, q) ==
  IF q.i < Len(workers)
  THEN Step(passes, p, [q EXCEPT !.pc = "status", !.i = q.i + 1])
  ELSE passes (-) SetToBag({ p })

\* assignAvailableWorkers: getJobs() and getActiveWorkers()
PassGetJobs ==
  /\ \E p \in BagToSet(passes) : \E jobs \in GetJobs :
       /\ p.pc = "getJobs"
       /\ passes' = Advance(p, [p EXCEPT !.jobList = jobs,
                                      !.activeJobs = GetActiveWorkers,
                                      !.claimed = ClaimedJobs])
  /\ lastPost' = NoPost
  /\ UNCHANGED << jobStore, statusStore, wjobStore, channel, workers, initialized,
                  nextJob, now, pendingSet, toPool, wpc, wlocal, inbox, chains,
                  dispatched, dispatchCount, finished, sentLog,
                  recovery, failed, sort,
                  units, api,
                  chunk, setup >>

\* assignAvailableWorkers, getWorkerStatus(workerId): KEYS worker:{id}:status and,
\* when the key is there, GET of it; a worker not read as IDLE gets nothing
PassStatus ==
  /\ \E p \in BagToSet(passes) :
       /\ p.pc = "status"
       /\ LET w == workers[p.i]
          IN  passes' =
                IF w \notin DOMAIN statusStore
                THEN Step(passes, p, [p EXCEPT !.pc = "setIdle"])
                ELSE IF StatusOf(statusStore[w]) = IDLE
                     THEN Step(passes, p, [p EXCEPT !.pc = "decide"])
                     ELSE Advance(p, p)
  /\ lastPost' = NoPost
  /\ UNCHANGED << jobStore, statusStore, wjobStore, channel, workers, initialized,
                  nextJob, now, pendingSet, toPool, wpc, wlocal, inbox, chains,
                  dispatched, dispatchCount, finished, sentLog,
                  recovery, failed, sort,
                  units, api,
                  chunk, setup >>

\* getWorkerStatus called by the pool, no key seen: SET worker:{id}:status IDLE,
\* and IDLE is returned
PassSetIdle ==
  /\ \E p \in BagToSet(passes) :
       /\ p.pc = "setIdle"
       /\ statusStore' = Put(statusStore, workers[p.i], IDLE)
       /\ passes' = Step(passes, p, [p EXCEPT !.pc = "decide"])
  /\ lastPost' = NoPost
  /\ UNCHANGED << jobStore, wjobStore, channel, workers, initialized, nextJob, now,
                  pendingSet, toPool, wpc, wlocal, inbox, chains, dispatched,
                  dispatchCount, finished, sentLog,
                  recovery, failed, sort,
                  units, api,
                  chunk, setup >>

\* the job assignAvailableWorkers picks for a worker read as IDLE:
\* jobList.filter(...).shift(), or << >> when nothing is left
PickJob(p) ==
  LET rest == FilterActive(p.jobList, p.activeJobs)
  IN  IF rest = << >> THEN << >> ELSE << Head(rest) >>

\* what is left of jobList for the next worker of the pass: shift() took the job
\* from the array filter() made, jobList itself is as it was
RestOfJobList(p) == p.jobList

Count(n) == IF n < 2 THEN n + 1 ELSE 2

\* assignAvailableWorkers, status === STATE.IDLE: the first job of the list is
\* posted to the worker's handle
PassDecide ==
  /\ \E p \in BagToSet(passes) :
       /\ p.pc = "decide"
       /\ PickJob(p) # << >> => dispatched < MaxDispatch
       /\ LET w == workers[p.i]
              pick == PickJob(p)
          IN  IF pick = << >>
              THEN /\ passes' = Advance(p, p)
                   /\ UNCHANGED << inbox, dispatchCount, dispatched >>
                   /\ lastPost' = NoPost
              ELSE LET j == pick[1].jobId
                   IN  /\ passes' = Advance(p, [p EXCEPT !.jobList = RestOfJobList(p),
                                                      !.sent = Append(p.sent, j)])
                       /\ inbox' = [inbox EXCEPT ![w] = Append(inbox[w], j)]
                       /\ dispatched' = dispatched + 1
                       /\ dispatchCount' =
                            [dispatchCount EXCEPT ![j] = Count(dispatchCount[j])]
                       /\ lastPost' =
                            [worker |-> w, job |-> j,
                             persisted |-> statusStore[w],
                             claimed |-> p.claimed,
                             sentBefore |-> p.sent,
                             jobList |-> p.jobList]
  /\ UNCHANGED << jobStore, statusStore, wjobStore, channel, workers, initialized,
                  nextJob, now, pendingSet, toPool, wpc, wlocal, chains, finished,
                  sentLog,
                  recovery, failed, sort,
                  units, api,
                  chunk, setup >>

\* ---------------------------------------------------------------- worker
Ready(w) == [from |-> w, action |-> "response:ready", job |-> NoJob]

\* main() when setupRedis is through: the message handler is registered and
\* response:ready is posted
Announce(w) ==
  /\ wpc' = [wpc EXCEPT ![w] = "running"]
  /\ toPool' = toPool \cup { Ready(w) }
  /\ sentLog' = sentLog \cup { Ready(w) }

\* main(), Worker.setupRedis: getWorkerStatus(this.id) finds no key
WorkerBootNoKey(w) ==
  /\ wpc[w] = "boot"
  /\ w \notin DOMAIN statusStore
  /\ wpc' = [wpc EXCEPT ![w] = "setIdle"]
  /\ lastPost' = NoPost
  /\ UNCHANGED << jobStore, statusStore, wjobStore, channel, workers, initialized,
                  nextJob, now, pendingSet, passes, toPool, wlocal, inbox, chains,
                  dispatched, dispatchCount, finished, sentLog,
                  recovery, failed, sort,
                  units, api,
                  chunk, setup >>

\* getWorkerStatus called by the worker, no key seen: SET worker:{id}:status IDLE
WorkerBootSetIdle(w) ==
  /\ wpc[w] = "setIdle"
  /\ statusStore' = Put(statusStore, w, IDLE)
  /\ wlocal' = [wlocal EXCEPT ![w] = IDLE]
  /\ Announce(w)
  /\ lastPost' = NoPost
  /\ UNCHANGED << jobStore, wjobStore, channel, workers, initialized, nextJob, now,
                  pendingSet, passes, inbox, chains, dispatched, dispatchCount,
                  finished,
                  recovery, failed, sort,
                  units, api,
                  chunk, setup >>

\* main(), Worker.setupRedis: getWorkerStatus(this.id) reads a status that is not BUSY
WorkerBootKey(w) ==
  /\ wpc[w] = "boot"
  /\ w \in DOMAIN statusStore
  /\ StatusOf(statusStore[w]) # BUSY
  /\ wlocal' = [wlocal EXCEPT ![w] = StatusOf(statusStore[w])]
  /\ Announce(w)
  /\ lastPost' = NoPost
  /\ UNCHANGED << jobStore, statusStore, wjobStore, channel, workers, initialized,
                  nextJob, now, pendingSet, passes, inbox, chains, dispatched,
                  dispatchCount, finished,
                  recovery, failed, sort,
                  units, api,
                  chunk, setup >>

\* an onMessage invocation of a worker
Chain(j, pc) == [job |-> j, pc |-> pc]

\* Worker.onMessage up to its second await: the dispatch is taken from the port,
\* setStatus(BUSY) sets Worker.status and worker:{id}:status
WorkerReceive(w) ==
  /\ wpc[w] = "running"
  /\ inbox[w] # << >>
  /\ inbox' = [inbox EXCEPT ![w] = Tail(inbox[w])]
  /\ wlocal' = [wlocal EXCEPT ![w] = BUSY]
  /\ statusStore' = Put(statusStore, w, BUSY)
  /\ chains' = [chains EXCEPT ![w] = @ (+) SetToBag({ Chain(Head(inbox[w]), "setJob") })]
  /\ lastPost' = NoPost
  /\ UNCHANGED << jobStore, wjobStore, channel, workers, initialized, nextJob, now,
                  pendingSet, passes, toPool, wpc, dispatched, dispatchCount,
                  finished, sentLog,
                  recovery, failed, sort,
                  units, api,
                  chunk, setup >>

\* an invocation that ends with whatever step it takes
ChainStepEnds(w, c, pc) ==
  chains' = [chains EXCEPT ![w] = @ (-) SetToBag({ c })]

\* one chain c of worker w moves to pc, or ends (pc = "end")
ChainStep(w, c, pc) ==
  chains' = [chains EXCEPT ![w] =
               IF pc = "end" THEN @ (-) SetToBag({ c })
               ELSE (@ (-) SetToBag({ c })) (+) SetToBag({ Chain(c.job, pc) })]

\* Worker.loadJob: the keys job:{jobId}* of the store
LoadJob(jobId) == { k \in jobStore : k.jobId = jobId }

\* the string 'I am broken' on the worker's port
Broken(w) == [from |-> w, action |-> "broken", job |-> NoJob]

\* loadJob throws `Job not found` and nothing catches it: the promise of
\* processJob and of its caller rejects.  Where node raises an unhandled
\* rejection as an uncaught exception the handler of the thread posts
\* 'I am broken', elsewhere nothing is posted
Rejected(w, j) ==
  /\ failed' = failed \cup { << w, j >> }
  /\ \E msgs \in { { }, { Broken(w) } } :
       /\ toPool' = toPool \cup msgs
       /\ sentLog' = sentLog \cup msgs

\* Worker.onMessage: setWorkerJob(this.id, message.id) reaches the store, and
\* processJob loads the job (a job's key is written once and the reads of it
\* see the same whenever they run).  With the job loaded setStatus(IDLE) sets
\* Worker.status; without a key loadJob throws and the invocation ends
ChainSetJob(w) ==
  /\ \E c \in BagToSet(chains[w]) :
       /\ c.pc = "setJob"
       /\ wjobStore' = Put(wjobStore, w, c.job)
       /\ IF LoadJob(c.job) = { }
          THEN /\ ChainStep(w, c, "end")
               /\ Rejected(w, c.job)
               /\ UNCHANGED wlocal
          ELSE /\ ChainStep(w, c, "setIdle")
               /\ wlocal' = [wlocal EXCEPT ![w] = IDLE]
               /\ UNCHANGED << failed, toPool, sentLog >>
  /\ lastPost' = NoPost
  /\ UNCHANGED << jobStore, statusStore, channel, workers, initialized, nextJob,
                  now, pendingSet, passes, wpc, inbox, dispatched,
                  dispatchCount, finished, recovery, sort,
                  units, api,
                  chunk, setup >>

\* Worker.processJob: setStatus(IDLE) reaches the store
ChainSetIdle(w) ==
  /\ \E c \in BagToSet(chains[w]) :
       /\ c.pc = "setIdle"
       /\ statusStore' = Put(statusStore, w, IDLE)
       /\ ChainStep(w, c, "clearJob")
  /\ lastPost' = NoPost
  /\ UNCHANGED << jobStore, wjobStore, channel, workers, initialized, nextJob, now,
                  pendingSet, passes, toPool, wpc, wlocal, inbox, dispatched,
                  dispatchCount, finished, sentLog,
                  recovery, failed, sort,
                  units, api,
                  chunk, setup >>

\* what Worker.processJob posts to the pool when the job is done: nothing
CompletionMessages(w, j) == { }

\* what Worker.processJob publishes on 'discord' when the job is done: nothing
Notifications(w, j) == << >>

\* Worker.processJob: setWorkerJob(this.id, '') reaches the store, processJob
\* returns.  Called by onMessage the invocation ends; called by setupRedis
\* main() goes on to register the handler and to post response:ready
ChainClearJob(w) ==
  /\ \E c \in BagToSet(chains[w]) :
       /\ c.pc = "clearJob"
       /\ wjobStore' = Put(wjobStore, w, NoJob)
       /\ ChainStep(w, c, "end")
       /\ finished' = finished \cup { c.job }
       /\ channel' = channel \o Notifications(w, c.job)
       /\ LET msgs == CompletionMessages(w, c.job)
                        \cup (IF wpc[w] = "resume" THEN { Ready(w) } ELSE { })
          IN  /\ toPool' = toPool \cup msgs
              /\ sentLog' = sentLog \cup msgs
  /\ wpc' = [wpc EXCEPT ![w] = IF @ = "resume" THEN "running" ELSE @]
  /\ lastPost' = NoPost
  /\ UNCHANGED << jobStore, statusStore, workers, initialized, nextJob, now,
                  pendingSet, passes, wlocal, inbox, dispatched, dispatchCount,
                  recovery, failed, sort,
                  units, api,
                  chunk, setup >>

\* ---------------------------------------------------------------- worker: recovery
\* getWorkerJob: GET worker:{id}:job
GetWorkerJob(w) == IF w \in DOMAIN wjobStore THEN wjobStore[w] ELSE Null

\* a test that takes no reply for a job id
HasJobIdNever(jobId) == FALSE

\* a test that takes the empty id '' for a job id
HasJobIdNotNull(jobId) == jobId # Null

\* if (jobId)
HasJobId(jobId) == jobId # Null /\ jobId # NoJob

\* main(), Worker.setupRedis: getWorkerStatus(this.id) reads BUSY
WorkerBootBusy(w) ==
  /\ wpc[w] = "boot"
  /\ w \in DOMAIN statusStore
  /\ StatusOf(statusStore[w]) = BUSY
  /\ wlocal' = [wlocal EXCEPT ![w] = BUSY]
  /\ wpc' = [wpc EXCEPT ![w] = "getJob"]
  /\ recovery' = [recovery EXCEPT ![w].busy = TRUE, ![w].job = GetWorkerJob(w)]
  /\ lastPost' = NoPost
  /\ UNCHANGED << jobStore, statusStore, wjobStore, channel, workers, initialized,
                  nextJob, now, pendingSet, passes, toPool, inbox, chains,
                  dispatched, dispatchCount, finished, sentLog, failed, sort,
                  units, api,
                  chunk, setup >>

\* Worker.setupRedis, status BUSY: getWorkerJob replies.  With a job id
\* processJob(jobId) is called and loads the job: setStatus(IDLE) sets
\* Worker.status, or loadJob throws and main() rejects.  Without a job id
\* setStatus(IDLE) sets Worker.status
WorkerGetJob(w) ==
  /\ wpc[w] = "getJob"
  /\ LET jobId == GetWorkerJob(w)
     IN  IF HasJobId(jobId)
         THEN /\ recovery' = [recovery EXCEPT ![w].resumed = jobId]
              /\ IF LoadJob(jobId) = { }
                 THEN /\ wpc' = [wpc EXCEPT ![w] = "rejected"]
                      /\ Rejected(w, jobId)
                      /\ UNCHANGED << wlocal, chains >>
                 ELSE /\ wpc' = [wpc EXCEPT ![w] = "resume"]
                      /\ chains' = [chains EXCEPT ![w] =
                                      @ (+) SetToBag({ Chain(jobId, "setIdle") })]
                      /\ wlocal' = [wlocal EXCEPT ![w] = IDLE]
                      /\ UNCHANGED << failed, toPool, sentLog >>
         ELSE /\ wpc' = [wpc EXCEPT ![w] = "resetIdle"]
              /\ wlocal' = [wlocal EXCEPT ![w] = IDLE]
              /\ UNCHANGED << recovery, chains, failed, toPool, sentLog >>
  /\ lastPost' = NoPost
  /\ UNCHANGED << jobStore, statusStore, wjobStore, channel, workers, initialized,
                  nextJob, now, pendingSet, passes, inbox, dispatched,
                  dispatchCount, finished, sort,
                  units, api,
                  chunk, setup >>

\* Worker.setupRedis, BUSY without a job id: setStatus(IDLE) reaches the store,
\* main() registers the handler and posts response:ready
WorkerResetIdle(w) ==
  /\ wpc[w] = "resetIdle"
  /\ statusStore' = Put(statusStore, w, IDLE)
  /\ Announce(w)
  /\ recovery' = [recovery EXCEPT ![w].ready = statusStore'[w]]
  /\ lastPost' = NoPost
  /\ UNCHANGED << jobStore, wjobStore, channel, workers, initialized, nextJob, now,
                  pendingSet, passes, wlocal, inbox, chains, dispatched,
                  dispatchCount, finished, failed, sort,
                  units, api,
                  chunk, setup >>

\* the pool's message handler, a message that is none of its cases: nothing
HandleOther ==
  /\ \E m \in toPool :
       /\ m.action = "broken"
       /\ toPool' = toPool \ { m }
  /\ lastPost' = NoPost
  /\ UNCHANGED << jobStore, statusStore, wjobStore, channel, workers, initialized,
                  nextJob, now, pendingSet, passes, wpc, wlocal, inbox, chains,
                  dispatched, dispatchCount, finished, sentLog, recovery, failed,
                  sort,
                  units, api,
                  chunk, setup >>

\* ---------------------------------------------------------------- specification
Next ==
  \/ Initialize
  \/ AddJob
  \/ AddJobStored
  \/ HandleReady
  \/ PassGetJobs
  \/ PassStatus
  \/ PassSetIdle
  \/ PassDecide
  \/ \E w \in WorkerIds :
       \/ WorkerBootNoKey(w)
       \/ WorkerBootSetIdle(w)
       \/ WorkerBootKey(w)
       \/ WorkerReceive(w)
       \/ ChainSetJob(w)
       \/ ChainSetIdle(w)
       \/ ChainClearJob(w)

Spec == Init /\ [][Next]_vars

\* ---------------------------------------------------------------- store errors
\* an addJob whose SET is rejected and whose .catch starts an assignment pass
AddJobFailedAndAssigned ==
  /\ \E k \in pendingSet : pendingSet' = pendingSet \ { k }
  /\ CanSpawn
  /\ passes' = Spawn(passes)
  /\ lastPost' = NoPost
  /\ UNCHANGED << jobStore, statusStore, wjobStore, channel, workers, initialized,
                  nextJob, now, toPool, wpc, wlocal, inbox, chains, dispatched,
                  dispatchCount, finished, sentLog, recovery, failed, sort,
                  units, api,
                  chunk, setup >>

\* WorkerPool.addJob, the .catch of the SET: the command is rejected, the .then
\* is skipped and the error is logged
AddJobFailed ==
  /\ \E k \in pendingSet : pendingSet' = pendingSet \ { k }
  /\ lastPost' = NoPost
  /\ UNCHANGED << jobStore, statusStore, wjobStore, channel, workers, initialized,
                  nextJob, now, passes, toPool, wpc, wlocal, inbox, chains,
                  dispatched, dispatchCount, finished, sentLog, recovery, failed,
                  sort, units, api,
                  chunk, setup >>

\* the pool and its workers on a store that can reject the SET of addJob
NextStoreError ==
  \/ Next
  \/ AddJobFailed

SpecStoreError == Init /\ [][NextStoreError]_vars

\* ---------------------------------------------------------------- restart
\* A process that starts on the store an earlier run left behind.  The earlier
\* run had the worker ids and the job ids 1 .. MaxOld; the store may hold
\* any of their keys (redis is a server of its own, and its keys outlive the
\* process and can be evicted or flushed).
OldIds == 1 .. MaxOld

\* the key of job j of the earlier run
OldKey(j) == JobKey(j, 0, Epoch + j - 1)

\* the functions on a subset of the ids S with values in V
Records(S, V) == UNION { [ D -> V ] : D \in SUBSET S }

InitRestart ==
  /\ jobStore \in SUBSET { OldKey(j) : j \in OldIds }
  /\ statusStore \in Records(OldIds, { IDLE, BUSY })
  /\ wjobStore \in Records(OldIds, { NoJob } \cup OldIds)
  /\ channel = << >>
  /\ workers = << >>
  /\ initialized = FALSE
  /\ nextJob = MaxOld + 1
  /\ now = Epoch
  /\ pendingSet = { }
  /\ passes = EmptyBag
  /\ toPool = { }
  /\ wpc = [ w \in WorkerIds |-> "none" ]
  /\ wlocal = [ w \in WorkerIds |-> INITIALIZING ]
  /\ inbox = [ w \in WorkerIds |-> << >> ]
  /\ chains = [ w \in WorkerIds |-> EmptyBag ]
  /\ dispatched = 0
  /\ dispatchCount = [ j \in JobIds |-> 0 ]
  /\ finished = { }
  /\ sentLog = { }
  /\ lastPost = NoPost
  /\ recovery = [ w \in WorkerIds |-> NoRecovery ]
  /\ failed = { }
  /\ sort = NoSort
  /\ units = [ w \in WorkerIds |-> 0 ]
  /\ api = NoCall
  /\ chunk = NoChunk
  /\ setup = NoSetup

NextRestart ==
  \/ Next
  \/ HandleOther
  \/ \E w \in WorkerIds :
       \/ WorkerBootBusy(w)
       \/ WorkerGetJob(w)
       \/ WorkerResetIdle(w)

SpecRestart == InitRestart /\ [][NextRestart]_vars

\* ---------------------------------------------------------------- backlog
\* A process that starts on a store in which every job of the earlier run
\* still waits, and that is given no new job.
InitBacklog ==
  /\ jobStore = { OldKey(j) : j \in JobIds }
  /\ statusStore \in Records(OldIds, { IDLE, BUSY })
  /\ wjobStore \in Records(OldIds, { NoJob } \cup OldIds)
  /\ channel = << >>
  /\ workers = << >>
  /\ initialized = FALSE
  /\ nextJob = MaxJobs + 1
  /\ now = Epoch + MaxJobs
  /\ pendingSet = { }
  /\ passes = EmptyBag
  /\ toPool = { }
  /\ wpc = [ w \in WorkerIds |-> "none" ]
  /\ wlocal = [ w \in WorkerIds |-> INITIALIZING ]
  /\ inbox = [ w \in WorkerIds |-> << >> ]
  /\ chains = [ w \in WorkerIds |-> EmptyBag ]
  /\ dispatched = 0
  /\ dispatchCount = [ j \in JobIds |-> 0 ]
  /\ finished = { }
  /\ sentLog = { }
  /\ lastPost = NoPost
  /\ recovery = [ w \in WorkerIds |-> NoRecovery ]
  /\ failed = { }
  /\ sort = NoSort
  /\ units = [ w \in WorkerIds |-> 0 ]
  /\ api = NoCall
  /\ chunk = NoChunk
  /\ setup = NoSetup

NextBacklog ==
  \/ Initialize
  \/ HandleReady
  \/ PassGetJobs
  \/ PassStatus
  \/ PassSetIdle
  \/ PassDecide
  \/ \E w \in WorkerIds :
       \/ WorkerBootNoKey(w)
       \/ WorkerBootSetIdle(w)
       \/ WorkerBootKey(w)
       \/ WorkerBootBusy(w)
       \/ WorkerGetJob(w)
       \/ WorkerResetIdle(w)
       \/ WorkerReceive(w)
       \/ ChainSetJob(w)
       \/ ChainSetIdle(w)
       \/ ChainClearJob(w)

SpecBacklog == InitBacklog /\ [][NextBacklog]_vars

\* ---------------------------------------------------------------- scheduling
\* The event loop of a worker thread runs every continuation whose reply has
\* arrived: an onMessage invocation that can take its next step takes it
Fairness ==
  \A w \in WorkerIds :
    /\ WF_vars(ChainSetJob(w))
    /\ WF_vars(ChainSetIdle(w))
    /\ WF_vars(ChainClearJob(w))

\* a process that starts on the store of an earlier run that had come to rest:
\* jobs wait, and a worker record is IDLE with the empty job id
InitFair ==
  /\ InitBacklog
  /\ \A w \in DOMAIN statusStore : statusStore[w] = IDLE
  /\ \A w \in DOMAIN wjobStore : wjobStore[w] = NoJob

NextFair ==
  \/ Initialize
  \/ HandleReady
  \/ PassGetJobs
  \/ PassStatus
  \/ PassSetIdle
  \/ PassDecide
  \/ \E w \in WorkerIds :
       \/ WorkerBootNoKey(w)
       \/ WorkerBootSetIdle(w)
       \/ WorkerBootKey(w)
       \/ WorkerReceive(w)
       \/ ChainSetJob(w)
       \/ ChainSetIdle(w)
       \/ ChainClearJob(w)

SpecFair == InitFair /\ [][NextFair]_vars /\ Fairness

\* ---------------------------------------------------------------- pool: lifecycle
\* The public methods of WorkerPool called after initialize, on a store that
\* holds worker records of an earlier run and no job.
LifecycleIds == 1 .. MinWorkers + MaxOld

\* the thread of id takes no step unless a message is put on its port
Inert(id) ==
  \/ wpc[id] \in { "none", "terminated" }
  \/ wpc[id] \in { "running", "rejected" } /\ inbox[id] = << >> /\ chains[id] = EmptyBag

\* Map.prototype.set on the keys of this.workers: a new key goes to the end
MapSet(ids, id) == IF \E i \in DOMAIN ids : ids[i] = id THEN ids ELSE Append(ids, id)

\* Map.prototype.delete on the keys of this.workers
MapDelete(ids, id) == SelectSeq(ids, LAMBDA x : x # id)

\* a test that finds a handle for every id
HasWorkerAlways(id) == TRUE

\* WorkerPool.hasWorker
HasWorker(id) == id \in Registered

\* WorkerPool.addWorker(id): a new thread is started and its handle is stored
\* under id.  A thread started for id before keeps running; the call is taken
\* when that thread is inert
AddWorker(id) ==
  /\ initialized
  /\ api.calls < MaxCalls
  /\ Inert(id)
  /\ workers' = MapSet(workers, id)
  /\ wpc' = [wpc EXCEPT ![id] = "boot"]
  /\ wlocal' = [wlocal EXCEPT ![id] = INITIALIZING]
  /\ recovery' = [recovery EXCEPT ![id] = NoRecovery]
  /\ units' = [units EXCEPT ![id] = @ + 1]
  /\ api' = [api EXCEPT !.calls = @ + 1]
  /\ lastPost' = NoPost
  /\ UNCHANGED << jobStore, statusStore, wjobStore, channel, initialized,
                  nextJob, now, pendingSet, passes, toPool, inbox, chains,
                  dispatched, dispatchCount, finished, sentLog, failed, sort,
                  chunk, setup >>

\* WorkerPool.removeWorker(id)
RemoveWorker(id) ==
  /\ initialized
  /\ api.calls < MaxCalls
  /\ workers' = MapDelete(workers, id)
  /\ api' = [api EXCEPT !.calls = @ + 1]
  /\ lastPost' = NoPost
  /\ UNCHANGED << jobStore, statusStore, wjobStore, channel, initialized,
                  nextJob, now, pendingSet, passes, toPool, wpc, wlocal,
                  inbox, chains, dispatched, dispatchCount, finished,
                  sentLog, recovery, failed, sort, units,
                  chunk, setup >>

\* the thread of a handle that terminate() stops
Stops(id) == id \in Registered /\ wpc[id] \notin { "none", "terminated" }

\* a shutdown that writes IDLE for every worker it terminates
ShutdownAndReset ==
  /\ initialized
  /\ api.calls < MaxCalls
  /\ wpc' = [ id \in DOMAIN wpc |-> IF Stops(id) THEN "terminated" ELSE wpc[id] ]
  /\ chains' = [ id \in DOMAIN chains |-> IF Stops(id) THEN EmptyBag ELSE chains[id] ]
  /\ inbox' = [ id \in DOMAIN inbox |-> IF Stops(id) THEN << >> ELSE inbox[id] ]
  /\ units' = [ id \in DOMAIN units |-> IF Stops(id) THEN units[id] - 1 ELSE units[id] ]
  /\ statusStore' = [ id \in DOMAIN statusStore |->
                        IF Stops(id) THEN IDLE ELSE statusStore[id] ]
  /\ api' = [api EXCEPT !.calls = @ + 1, !.down = TRUE]
  /\ lastPost' = NoPost
  /\ UNCHANGED << jobStore, wjobStore, channel, workers, initialized,
                  nextJob, now, pendingSet, passes, toPool, wlocal,
                  dispatched, dispatchCount, finished, sentLog, recovery,
                  failed, sort,
                  chunk, setup >>

\* WorkerPool.shutdown: terminate() on every handle
Shutdown ==
  /\ initialized
  /\ api.calls < MaxCalls
  /\ wpc' = [ id \in DOMAIN wpc |-> IF Stops(id) THEN "terminated" ELSE wpc[id] ]
  /\ chains' = [ id \in DOMAIN chains |-> IF Stops(id) THEN EmptyBag ELSE chains[id] ]
  /\ inbox' = [ id \in DOMAIN inbox |-> IF Stops(id) THEN << >> ELSE inbox[id] ]
  /\ units' = [ id \in DOMAIN units |-> IF Stops(id) THEN units[id] - 1 ELSE units[id] ]
  /\ api' = [api EXCEPT !.calls = @ + 1, !.down = TRUE]
  /\ lastPost' = NoPost
  /\ UNCHANGED << jobStore, statusStore, wjobStore, channel, workers,
                  initialized, nextJob, now, pendingSet, passes, toPool,
                  wlocal, dispatched, dispatchCount, finished, sentLog,
                  recovery, failed, sort,
                  chunk, setup >>

\* WorkerPool.getWorkerStatus(id): without a handle undefined is returned, with
\* one getWorkerStatus(id, client) is called
PoolGetWorkerStatus(id) ==
  /\ initialized
  /\ api.calls < MaxCalls
  /\ api.pc \in { "idle", "done" }
  /\ api' = IF HasWorker(id)
            THEN [api EXCEPT !.calls = @ + 1, !.id = id, !.pc = "keys",
                             !.registered = (id \in Registered), !.commands = 0,
                             !.held = Null, !.result = Null]
            ELSE [api EXCEPT !.calls = @ + 1, !.id = id, !.pc = "done",
                             !.registered = (id \in Registered), !.commands = 0,
                             !.held = Null, !.result = Undefined]
  /\ lastPost' = NoPost
  /\ UNCHANGED << jobStore, statusStore, wjobStore, channel, workers,
                  initialized, nextJob, now, pendingSet, passes, toPool, wpc,
                  wlocal, inbox, chains, dispatched, dispatchCount, finished,
                  sentLog, recovery, failed, sort, units,
                  chunk, setup >>

\* getWorkerStatus called by WorkerPool.getWorkerStatus: KEYS replies, and
\* with the key there GET replies
PoolStatusReply ==
  /\ api.pc = "keys"
  /\ api' = IF api.id \in DOMAIN statusStore
            THEN [api EXCEPT !.pc = "done", !.commands = 2,
                             !.held = statusStore[api.id],
                             !.result = StatusOf(statusStore[api.id])]
            ELSE [api EXCEPT !.pc = "set", !.commands = 1]
  /\ lastPost' = NoPost
  /\ UNCHANGED << jobStore, statusStore, wjobStore, channel, workers,
                  initialized, nextJob, now, pendingSet, passes, toPool, wpc,
                  wlocal, inbox, chains, dispatched, dispatchCount, finished,
                  sentLog, recovery, failed, sort, units,
                  chunk, setup >>

\* getWorkerStatus called by WorkerPool.getWorkerStatus, no key seen: SET
\* worker:{id}:status IDLE, and IDLE is returned
PoolStatusSetIdle ==
  /\ api.pc = "set"
  /\ statusStore' = Put(statusStore, api.id, IDLE)
  /\ api' = [api EXCEPT !.pc = "done", !.commands = 2,
                        !.held = statusStore'[api.id], !.result = IDLE]
  /\ lastPost' = NoPost
  /\ UNCHANGED << jobStore, wjobStore, channel, workers, initialized,
                  nextJob, now, pendingSet, passes, toPool, wpc, wlocal,
                  inbox, chains, dispatched, dispatchCount, finished,
                  sentLog, recovery, failed, sort, units,
                  chunk, setup >>

InitLifecycle ==
  /\ jobStore = { }
  /\ statusStore \in Records(LifecycleIds, { IDLE, BUSY })
  /\ wjobStore \in Records(OldIds, { NoJob } \cup OldIds)
  /\ channel = << >>
  /\ workers = << >>
  /\ initialized = FALSE
  /\ nextJob = MaxJobs + 1
  /\ now = Epoch
  /\ pendingSet = { }
  /\ passes = EmptyBag
  /\ toPool = { }
  /\ wpc = [ w \in LifecycleIds |-> "none" ]
  /\ wlocal = [ w \in LifecycleIds |-> INITIALIZING ]
  /\ inbox = [ w \in LifecycleIds |-> << >> ]
  /\ chains = [ w \in LifecycleIds |-> EmptyBag ]
  /\ dispatched = 0
  /\ dispatchCount = [ j \in JobIds |-> 0 ]
  /\ finished = { }
  /\ sentLog = { }
  /\ lastPost = NoPost
  /\ recovery = [ w \in LifecycleIds |-> NoRecovery ]
  /\ failed = { }
  /\ sort = NoSort
  /\ units = [ w \in LifecycleIds |-> 0 ]
  /\ api = NoCall
  /\ chunk = NoChunk
  /\ setup = NoSetup

NextLifecycle ==
  \/ Initialize
  \/ HandleReady
  \/ HandleOther
  \/ Shutdown
  \/ PoolStatusReply
  \/ PoolStatusSetIdle
  \/ \E id \in LifecycleIds :
       \/ AddWorker(id)
       \/ RemoveWorker(id)
       \/ PoolGetWorkerStatus(id)
       \/ WorkerBootNoKey(id)
       \/ WorkerBootSetIdle(id)
       \/ WorkerBootKey(id)
       \/ WorkerBootBusy(id)
       \/ WorkerGetJob(id)
       \/ WorkerResetIdle(id)

SpecLifecycle == InitLifecycle /\ [][NextLifecycle]_vars

\* ---------------------------------------------------------------- sortListByKeys
\* Job.sortListByKeys called on its own, on a list of keys KEYS job:* can
\* return: distinct keys, each with the segments split(':') finds behind
\* 'job'.  A segment that is missing or empty is << >> (NoJob for the id).
PrioritySegments == { NumStr(p) : p \in (0 - SortMinus) .. SortMax } \cup { << >> }

TimeSegments == { NumStr(Epoch + t) : t \in 0 .. SortTicks } \cup { << >> }

SortKeys ==
  [jobId : NoJob .. MaxSortLen, priority : PrioritySegments, createdAt : TimeSegments]

SortInputs ==
  UNION { { l \in [1 .. n -> SortKeys] : \A i, j \in 1 .. n : i # j => l[i] # l[j] } :
          n \in 0 .. MaxSortLen }

InitSort ==
  /\ jobStore = { }
  /\ statusStore = << >>
  /\ wjobStore = << >>
  /\ channel = << >>
  /\ workers = << >>
  /\ initialized = FALSE
  /\ nextJob = 1
  /\ now = Epoch
  /\ pendingSet = { }
  /\ passes = EmptyBag
  /\ toPool = { }
  /\ wpc = [ w \in WorkerIds |-> "none" ]
  /\ wlocal = [ w \in WorkerIds |-> INITIALIZING ]
  /\ inbox = [ w \in WorkerIds |-> << >> ]
  /\ chains = [ w \in WorkerIds |-> EmptyBag ]
  /\ dispatched = 0
  /\ dispatchCount = [ j \in JobIds |-> 0 ]
  /\ finished = { }
  /\ sentLog = { }
  /\ lastPost = NoPost
  /\ recovery = [ w \in WorkerIds |-> NoRecovery ]
  /\ failed = { }
  /\ units = [ w \in WorkerIds |-> 0 ]
  /\ api = NoCall
  /\ chunk = NoChunk
  /\ setup = NoSetup
  /\ \E l \in SortInputs : sort = [in |-> l, out |-> << >>, done |-> FALSE]

\* Job.sortListByKeys(sort.in) returns
SortCall ==
  /\ ~sort.done
  /\ sort' = [sort EXCEPT !.out = SortListByKeys(sort.in), !.done = TRUE]
  /\ lastPost' = NoPost
  /\ UNCHANGED << jobStore, statusStore, wjobStore, channel, workers, initialized,
                  nextJob, now, pendingSet, passes, toPool, wpc, wlocal, inbox,
                  chains, dispatched, dispatchCount, finished, sentLog, recovery,
                  failed,
                  units, api,
                  chunk, setup >>

NextSort == SortCall

SpecSort == InitSort /\ [][NextSort]_vars

\* ---------------------------------------------------------------- chunkMessage
\* A text is the sequence of its characters.
\* String.split(sep) for a separator of one character
RECURSIVE Split(_, _)
Split(str, sep) ==
  IF \A i \in DOMAIN str : str[i] # sep
  THEN << str >>
  ELSE LET i == CHOOSE i \in DOMAIN str :
                  str[i] = sep /\ \A j \in 1 .. i - 1 : str[j] # sep
       IN  << SubSeq(str, 1, i - 1) >> \o Split(SubSeq(str, i + 1, Len(str)), sep)

WhiteSpace == { Newline, Space }

\* String.trimStart and String.trimEnd
RECURSIVE TrimStart(_)
TrimStart(str) ==
  IF str # << >> /\ Head(str) \in WhiteSpace THEN TrimStart(Tail(str)) ELSE str

RECURSIVE TrimEnd(_)
TrimEnd(str) ==
  IF str # << >> /\ str[Len(str)] \in WhiteSpace
  THEN TrimEnd(SubSeq(str, 1, Len(str) - 1))
  ELSE str

\* String.trim
Trim(str) == TrimEnd(TrimStart(str))

\* String.substring(from, to) for 0 <= from <= to
Substring(str, from, to) ==
  SubSeq(str, from + 1, IF to < Len(str) THEN to ELSE Len(str))

\* chunks.push(currentChunk.trim()) when currentChunk is not empty
PushCurrent(st) ==
  IF Len(st.currentChunk) > 0
  THEN Append(st.chunks, Trim(st.currentChunk))
  ELSE st.chunks

\* the body of the loop over the words of a line that is longer than maxLength
AddWord(st, word, maxLength) ==
  IF Len(st.currentChunk) + Len(word) + 1 > maxLength
  THEN IF Len(st.currentChunk) > 0
       THEN [chunks |-> PushCurrent(st), currentChunk |-> word]
       ELSE [chunks |-> Append(st.chunks, Substring(word, 0, maxLength)),
             currentChunk |-> Substring(word, maxLength, Len(word))]
  ELSE [chunks |-> st.chunks,
        currentChunk |-> st.currentChunk
                           \o (IF Len(st.currentChunk) > 0 THEN << Space >> ELSE << >>)
                           \o word]

RECURSIVE AddWords(_, _, _)
AddWords(st, words, maxLength) ==
  IF words = << >> THEN st
  ELSE AddWords(AddWord(st, Head(words), maxLength), Tail(words), maxLength)

\* the body of the loop over the lines of the text
AddLine(st, line, maxLength) ==
  IF Len(line) > maxLength
  THEN AddWords([chunks |-> PushCurrent(st), currentChunk |-> << >>],
                Split(line, Space), maxLength)
  ELSE LET potentialChunk ==
             st.currentChunk
               \o (IF Len(st.currentChunk) > 0 THEN << Newline >> ELSE << >>)
               \o line
       IN  IF Len(potentialChunk) > maxLength
           THEN [chunks |-> PushCurrent(st), currentChunk |-> line]
           ELSE [chunks |-> st.chunks, currentChunk |-> potentialChunk]

RECURSIVE AddLines(_, _, _)
AddLines(st, lines, maxLength) ==
  IF lines = << >> THEN st
  ELSE AddLines(AddLine(st, Head(lines), maxLength), Tail(lines), maxLength)

\* chunkMessage(text, maxLength)
ChunkMessage(text, maxLength) ==
  IF Len(text) <= maxLength
  THEN << text >>
  ELSE PushCurrent(AddLines([chunks |-> << >>, currentChunk |-> << >>],
                            Split(text, Newline), maxLength))

\* the texts of up to MaxText characters
Texts == UNION { [1 .. n -> { Newline, Space, Letter }] : n \in 0 .. MaxText }

InitChunk ==
  /\ jobStore = { }
  /\ statusStore = << >>
  /\ wjobStore = << >>
  /\ channel = << >>
  /\ workers = << >>
  /\ initialized = FALSE
  /\ nextJob = 1
  /\ now = Epoch
  /\ pendingSet = { }
  /\ passes = EmptyBag
  /\ toPool = { }
  /\ wpc = [ w \in WorkerIds |-> "none" ]
  /\ wlocal = [ w \in WorkerIds |-> INITIALIZING ]
  /\ inbox = [ w \in WorkerIds |-> << >> ]
  /\ chains = [ w \in WorkerIds |-> EmptyBag ]
  /\ dispatched = 0
  /\ dispatchCount = [ j \in JobIds |-> 0 ]
  /\ finished = { }
  /\ sentLog = { }
  /\ lastPost = NoPost
  /\ recovery = [ w \in WorkerIds |-> NoRecovery ]
  /\ failed = { }
  /\ sort = NoSort
  /\ units = [ w \in WorkerIds |-> 0 ]
  /\ api = NoCall
  /\ setup = NoSetup
  /\ \E text \in Texts : \E maxLength \in 1 .. MaxLength :
       chunk = [text |-> text, maxLength |-> maxLength, out |-> << >>, done |-> FALSE]

\* chunkMessage(chunk.text, chunk.maxLength) returns
ChunkCall ==
  /\ ~chunk.done
  /\ chunk' = [chunk EXCEPT !.out = ChunkMessage(chunk.text, chunk.maxLength),
                            !.done = TRUE]
  /\ lastPost' = NoPost
  /\ UNCHANGED << jobStore, statusStore, wjobStore, channel, workers, initialized,
                  nextJob, now, pendingSet, passes, toPool, wpc, wlocal, inbox,
                  chains, dispatched, dispatchCount, finished, sentLog, recovery,
                  failed, sort, units, api, setup >>

NextChunk == ChunkCall

SpecChunk == InitChunk /\ [][NextChunk]_vars

\* ---------------------------------------------------------------- worker: backends
\* The llmClients of a worker's configuration are the entries 1 .. n in the
\* order of Object.entries; an entry has its engine and whether auth.bearer is
\* there.
Engines == { "ollama", "digitalocean", "other" }

Configs ==
  UNION { [1 .. n -> [engine : Engines, bearer : BOOLEAN]] : n \in 0 .. MaxEngines }

\* new OllamaClient(config) and new DigitalOceanAIClient(config) return; the
\* latter throws when DOAIConfigSchema does not accept the config
Constructs(entry) ==
  \/ entry.engine = "ollama"
  \/ entry.engine = "digitalocean" /\ entry.bearer

\* the switch of setupLLMClients skips the entry with an error in the log
Skipped(entry) == entry.engine \notin { "ollama", "digitalocean" }

\* the entries setupLLMClients gets through: all of them, or those before the
\* first whose constructor throws
RECURSIVE Through(_, _)
Through(config, i) ==
  IF i > Len(config) THEN Len(config)
  ELSE IF Skipped(config[i]) \/ Constructs(config[i]) THEN Through(config, i + 1)
  ELSE i - 1

InitClients ==
  /\ jobStore = { }
  /\ statusStore = << >>
  /\ wjobStore = << >>
  /\ channel = << >>
  /\ workers = << >>
  /\ initialized = FALSE
  /\ nextJob = 1
  /\ now = Epoch
  /\ pendingSet = { }
  /\ passes = EmptyBag
  /\ toPool = { }
  /\ wpc = [ w \in WorkerIds |-> "none" ]
  /\ wlocal = [ w \in WorkerIds |-> INITIALIZING ]
  /\ inbox = [ w \in WorkerIds |-> << >> ]
  /\ chains = [ w \in WorkerIds |-> EmptyBag ]
  /\ dispatched = 0
  /\ dispatchCount = [ j \in JobIds |-> 0 ]
  /\ finished = { }
  /\ sentLog = { }
  /\ lastPost = NoPost
  /\ recovery = [ w \in WorkerIds |-> NoRecovery ]
  /\ failed = { }
  /\ sort = NoSort
  /\ units = [ w \in WorkerIds |-> 0 ]
  /\ api = NoCall
  /\ chunk = NoChunk
  /\ \E config \in Configs :
       setup = [config |-> config, pc |-> "start", llmClients |-> { }, built |-> { }]

\* main() up to the end of Worker.setupLLMClients: the clients are built into
\* the map of the method, which is dropped at its return; a constructor that
\* throws rejects setupLLMClients, initialize and main()
WorkerSetupLLMClients ==
  /\ setup.pc = "start"
  /\ LET n == Through(setup.config, 1)
     IN  setup' = [setup EXCEPT
                     !.built = { i \in 1 .. n : Constructs(setup.config[i]) },
                     !.pc = IF n = Len(setup.config) THEN "redis" ELSE "rejected"]
  /\ lastPost' = NoPost
  /\ UNCHANGED << jobStore, statusStore, wjobStore, channel, workers, initialized,
                  nextJob, now, pendingSet, passes, toPool, wpc, wlocal, inbox,
                  chains, dispatched, dispatchCount, finished, sentLog, recovery,
                  failed, sort, units, api, chunk >>

\* main() after initialize: setupRedis is through, the handler is registered
\* and response:ready is posted
WorkerSetupReady ==
  /\ setup.pc = "redis"
  /\ setup' = [setup EXCEPT !.pc = "running"]
  /\ lastPost' = NoPost
  /\ UNCHANGED << jobStore, statusStore, wjobStore, channel, workers, initialized,
                  nextJob, now, pendingSet, passes, toPool, wpc, wlocal, inbox,
                  chains, dispatched, dispatchCount, finished, sentLog, recovery,
                  failed, sort, units, api, chunk >>

NextClients ==
  \/ WorkerSetupLLMClients
  \/ WorkerSetupReady

SpecClients == InitClients /\ [][NextClients]_vars

\* ---------------------------------------------------------------- claims
\* the job ids whose addJob call has resolved
Resolved == 1 .. nextJob - 1

\* the step just taken was a postMessage of the pool
Posted == lastPost.worker # 0

\* nothing is left to do for the pool or any worker: no SET, pass, message or
\* dispatch is in flight and every thread listens on its port
Quiescent ==
  /\ initialized
  /\ pendingSet = { }
  /\ passes = EmptyBag
  /\ toPool = { }
  /\ \A w \in WorkerIds :
       wpc[w] = "running" /\ inbox[w] = << >> /\ chains[w] = EmptyBag

\* C1: no job id is posted to a worker handle more than once, neither to two
\* workers nor twice to the same worker.
C1_NoJobDispatchedTwice == \A j \in JobIds : dispatchCount[j] <= 1

\* C2: within one assignAvailableWorkers pass the jobs posted are pairwise
\* distinct: a job posted to one IDLE worker is not posted to a later worker of
\* the same pass.
C2_PassDispatchesDistinctJobs ==
  Posted => \A i \in DOMAIN lastPost.sentBefore : lastPost.sentBefore[i] # lastPost.job

\* C3: a pass never posts a job whose id the store held as some worker's
\* worker:{id}:job when the pass fetched the jobs being worked.
C3_NoClaimedJobDispatched == Posted => lastPost.job \notin lastPost.claimed

\* C4: whenever the pool posts a job to worker w, the persisted status
\* worker:w:status is not BUSY.
C4_NoDispatchToBusyWorker == Posted => lastPost.persisted # BUSY

\* C5: a worker has at most one onMessage / processJob invocation in flight.
C5_OneJobAtATime == \A w \in WorkerIds : BagCardinality(chains[w]) <= 1

\* C6: for every job a worker has finished processing, the worker has posted
\* {action: 'response:complete', job} to the pool.
C6_CompleteSentForFinishedJob ==
  \A j \in finished :
    \E m \in sentLog : m.action = "response:complete" /\ m.job = j

\* C7: for every job a worker has processed to completion, a notification for
\* it has been published on 'discord'.
C7_NotificationForFinishedJob ==
  \A j \in finished : \E i \in DOMAIN channel : channel[i].job = j

C9_NoJobLeftWaiting == Quiescent => \A k \in jobStore : k.jobId \in finished

\* C10: from the moment its addJob call has resolved until it is completed, a
\* job's key is in the store and getJobs() lists it.
C10_KeyStoredWhenAddJobResolves ==
  \A j \in Resolved \ finished :
    /\ LoadJob(j) # { }
    /\ \A jobs \in GetJobs : \E i \in DOMAIN jobs : jobs[i].jobId = j

\* C11: a worker thread that finds its persisted status BUSY and a persisted job
\* id j at its start calls processJob(j) in setupRedis: it processes exactly j,
\* and no dispatch, before it listens on its port
C11_BusyWithJobResumesIt ==
  \A w \in WorkerIds :
    (recovery[w].busy /\ recovery[w].job \in JobIds /\ wpc[w] # "getJob") =>
      /\ recovery[w].resumed = recovery[w].job
      /\ wpc[w] \in { "resume", "rejected", "running" }
      /\ wpc[w] = "resume" =>
           /\ BagCardinality(chains[w]) = 1
           /\ \A c \in BagToSet(chains[w]) : c.job = recovery[w].job
      /\ wpc[w] = "rejected" =>
           chains[w] = EmptyBag /\ << w, recovery[w].job >> \in failed
      /\ wpc[w] = "running" => recovery[w].job \in finished

\* C11 happens: a thread that started BUSY with a job id has resumed the job,
\* processed it to its end and now listens on its port
C11_Witness ==
  \E w \in WorkerIds :
    /\ recovery[w].busy
    /\ recovery[w].job \in JobIds
    /\ wpc[w] = "running"
    /\ recovery[w].resumed \in finished

\* C12: a worker thread that finds its persisted status BUSY and no job id (no
\* key, or the empty id) at its start processes no job in setupRedis and has
\* written the status IDLE when it posts response:ready
C12_BusyWithoutJobResetsToIdle ==
  \A w \in WorkerIds :
    (recovery[w].busy /\ recovery[w].job \in { Null, NoJob }) =>
      /\ recovery[w].resumed = Null
      /\ wpc[w] \in { "getJob", "resetIdle", "running" }
      /\ wpc[w] # "running" => chains[w] = EmptyBag
      /\ wpc[w] = "running" => recovery[w].ready = IDLE
      /\ << w, recovery[w].job >> \notin failed

\* C12 happens: a thread that started BUSY without a job id has posted
\* response:ready with IDLE in the store
C12_Witness ==
  \E w \in WorkerIds :
    /\ recovery[w].busy
    /\ recovery[w].job \in { Null, NoJob }
    /\ wpc[w] = "running"
    /\ recovery[w].ready = IDLE

\* worker w has nothing in flight: no onMessage invocation, no dispatch on its
\* port, and main() is through (it listens, or it has rejected)
AtRest(w) ==
  /\ chains[w] = EmptyBag
  /\ inbox[w] = << >>
  /\ wpc[w] \in { "running", "rejected" }

\* C13: a worker whose loadJob found no key for the job id has, once it is at
\* rest, reported to the pool, has IDLE and the empty job id in the store, and
\* listens on its port
C13_JobNotFoundReturnsToIdle ==
  \A f \in failed :
    AtRest(f[1]) =>
      /\ \E m \in sentLog : m.from = f[1] /\ m.action # "response:ready"
      /\ f[1] \in DOMAIN statusStore /\ statusStore[f[1]] = IDLE
      /\ f[1] \in DOMAIN wjobStore /\ wjobStore[f[1]] = NoJob
      /\ wpc[f[1]] = "running"

\* C14: a worker whose persisted status is BUSY has a persisted job id that is
\* not empty
C14_BusyImpliesJobId ==
  \A w \in DOMAIN statusStore :
    statusStore[w] = BUSY => (w \in DOMAIN wjobStore /\ wjobStore[w] # NoJob)

\* C15: at the step in which onMessage calls processJob for a dispatched job id
\* (setWorkerJob has replied, loadJob runs) the store holds the status BUSY and
\* that job id for the worker
C15_WriteAheadBeforeProcessing ==
  [][ \A w \in WorkerIds :
        ChainSetJob(w) =>
          /\ statusStore'[w] = BUSY
          /\ \E c \in BagToSet(chains[w]) : c.pc = "setJob" /\ wjobStore'[w] = c.job
    ]_vars

RECURSIVE DigitsNum(_)
\* the number a string of decimal digits stands for
DigitsNum(str) ==
  IF str = << >> THEN 0
  ELSE 10 * DigitsNum(SubSeq(str, 1, Len(str) - 1)) + (str[Len(str)] - Zero)

\* the integer a segment written by NumStr stands for
StrNum(str) ==
  IF str # << >> /\ Head(str) = Minus THEN 0 - DigitsNum(Tail(str))
  ELSE DigitsNum(str)

\* the priority and the creation time of an entry of a sorted list, as numbers
PriorityOf(e) == StrNum(e.jobKey.priority)
CreatedAtOf(e) == StrNum(e.jobKey.createdAt)

\* a key with a job id, a priority and a creation time
WellFormed(k) == k.jobId # NoJob /\ k.priority # << >> /\ k.createdAt # << >>

\* C16: in the list sortListByKeys returns, an entry with the numerically
\* smaller priority stands before an entry with the larger one
C16_NumericPriorityOrder ==
  sort.done =>
    \A i, j \in DOMAIN sort.out :
      PriorityOf(sort.out[i]) < PriorityOf(sort.out[j]) => i < j

C18_ExactlyTheWellFormedKeys ==
  sort.done =>
    /\ \A i \in DOMAIN sort.in :
         Cardinality({ j \in DOMAIN sort.out : sort.out[j].jobKey = sort.in[i] })
           = IF WellFormed(sort.in[i]) THEN 1 ELSE 0
    /\ \A j \in DOMAIN sort.out :
         /\ \E i \in DOMAIN sort.in : sort.out[j].jobKey = sort.in[i]
         /\ sort.out[j].jobId = sort.out[j].jobKey.jobId
         /\ sort.out[j].sortKey =
              sort.out[j].jobKey.priority \o << Colon >> \o sort.out[j].jobKey.createdAt

\* C18 happens: sortListByKeys was given a key without a creation time and a
\* key with all its segments, and has returned one entry
C18_Witness ==
  /\ sort.done
  /\ \E i \in DOMAIN sort.in :
       sort.in[i].jobId # NoJob /\ sort.in[i].priority # << >>
         /\ sort.in[i].createdAt = << >>
  /\ \E i \in DOMAIN sort.in : WellFormed(sort.in[i])
  /\ Len(sort.out) = 1

\* the entry of the posting pass's job list for the job it posted
PostedEntry ==
  CHOOSE e \in { lastPost.jobList[i] : i \in DOMAIN lastPost.jobList } :
    e.jobId = lastPost.job

\* the entries of the posting pass's job list for the jobs no pass has posted
PendingEntries ==
  { e \in { lastPost.jobList[i] : i \in DOMAIN lastPost.jobList } :
      dispatchCount[e.jobId] = 0 }

\* C19: the job a pass posts has not been posted before, and no job that is
\* still pending has a smaller priority, or the same priority and a smaller
\* creation time
C19_SmallestPendingJobFirst ==
  Posted =>
    /\ dispatchCount[lastPost.job] = 1
    /\ \A e \in PendingEntries :
         /\ PriorityOf(PostedEntry) <= PriorityOf(e)
         /\ PriorityOf(PostedEntry) = PriorityOf(e) =>
              CreatedAtOf(PostedEntry) <= CreatedAtOf(e)

\* C20: no job that is still pending when a pass posts a job has a higher
\* priority number than the posted job, or the same priority and a smaller
\* creation time
C20_HigherPriorityNumberFirst ==
  Posted =>
    \A e \in PendingEntries :
      /\ PriorityOf(e) <= PriorityOf(PostedEntry)
      /\ PriorityOf(e) = PriorityOf(PostedEntry) =>
           CreatedAtOf(PostedEntry) <= CreatedAtOf(e)

\* the ids of a list are pairwise different
Distinct(ids) == \A i, j \in DOMAIN ids : i # j => ids[i] # ids[j]

\* C21: on a store without worker records, once initialize has run exactly
\* MinWorkers different workers are registered, and at the step in which a
\* worker posts response:ready the store holds IDLE for it
C21_MinWorkersRegisteredAndIdle ==
  [][ /\ initialized' => (Len(workers') = MinWorkers /\ Distinct(workers'))
      /\ \A w \in WorkerIds :
           (wpc[w] # "running" /\ wpc'[w] = "running") =>
             /\ w \in DOMAIN statusStore' /\ statusStore'[w] = IDLE
             /\ Ready(w) \in toPool'
    ]_vars

\* C21 happens: initialize has run on the empty store, MinWorkers workers are
\* registered, all of them have posted response:ready and are IDLE in the store
C21_Witness ==
  /\ initialized
  /\ Len(workers) = MinWorkers
  /\ \A w \in Registered :
       wpc[w] = "running" /\ w \in DOMAIN statusStore /\ statusStore[w] = IDLE

\* C22: no step starts a further thread for an id that has a handle
C22_AddWorkerIdempotent ==
  [][ \A id \in Registered : units'[id] <= units[id] ]_vars

\* C23: a shutdown() step leaves every key of the store as it is and leaves
\* no thread of a registered worker running
C23_ShutdownKeepsStore ==
  [][ Shutdown =>
        /\ UNCHANGED << jobStore, statusStore, wjobStore >>
        /\ \A id \in Registered :
             wpc'[id] = "terminated" /\ chains'[id] = EmptyBag /\ inbox'[id] = << >>
    ]_vars

\* C23 happens: shutdown() was called, and a registered worker whose thread is
\* terminated is recorded BUSY with a job id
C23_Witness ==
  /\ api.down
  /\ \E id \in Registered :
       /\ wpc[id] = "terminated"
       /\ id \in DOMAIN statusStore /\ statusStore[id] = BUSY
       /\ id \in DOMAIN wjobStore /\ wjobStore[id] \in JobIds

\* C24: no thread runs for an id that has no handle
C24_RemovedWorkerTerminated ==
  \A id \in DOMAIN units : id \notin Registered => units[id] = 0

\* C25: a getWorkerStatus(id) call of the pool that has returned has, for an
\* id without a handle, returned undefined and sent no command to the store,
\* and for an id with a handle returned the status the store held at the reply
C25_StatusOfUnknownIsUndefined ==
  api.pc = "done" =>
    IF api.registered
    THEN api.result = api.held /\ api.commands > 0
    ELSE api.result = Undefined /\ api.commands = 0 /\ api.held = Null

\* C25 happens: getWorkerStatus has returned undefined for an id that has a
\* status key in the store and no handle
C25_Witness ==
  /\ api.pc = "done"
  /\ ~api.registered
  /\ api.id \in DOMAIN statusStore
  /\ api.result = Undefined

\* C27: no step of the pool (initialize, addJob, the ready handler, an
\* assignment pass) changes a worker status key
C27_PoolNeverWritesStatus ==
  [][ ( Initialize \/ AddJob \/ AddJobStored \/ HandleReady \/ PassGetJobs
          \/ PassStatus \/ PassSetIdle \/ PassDecide )
        => UNCHANGED statusStore ]_vars

\* C28: when nothing is in flight the job keys of the store are those of the
\* jobs that were added and have not been processed to the end
C28_StoreHoldsPendingJobsOnly ==
  Quiescent => { k.jobId : k \in jobStore } = Resolved \ finished

\* C29: the step of initialize registers every id that has a status key and
\* fresh ids up to MinWorkers: the larger of MinWorkers and the number of
\* status keys, all different
C29_InitializeRegistersRecords ==
  [][ (~initialized /\ initialized') =>
        /\ Len(workers') = IF Cardinality(DOMAIN statusStore) > MinWorkers
                            THEN Cardinality(DOMAIN statusStore) ELSE MinWorkers
        /\ Distinct(workers')
        /\ \A id \in DOMAIN statusStore : \E i \in DOMAIN workers' : workers'[i] = id
    ]_vars

\* C29 happens: initialize has run on a store with more status keys than
\* MinWorkers, and no worker was added or removed since
C29_Witness ==
  /\ initialized
  /\ api.calls = 0
  /\ Len(workers) > MinWorkers

\* C30: a worker thread whose main() is through has posted response:ready
C30_ReadyAfterEveryStart ==
  \A w \in WorkerIds : wpc[w] \in { "running", "rejected" } => Ready(w) \in sentLog

\* nothing is in flight and nothing will happen without a new call: no SET, pass
\* or message is pending and every thread is at rest
Settled ==
  /\ initialized
  /\ pendingSet = { }
  /\ passes = EmptyBag
  /\ toPool = { }
  /\ \A w \in WorkerIds : AtRest(w)

\* C26: when the process has come to rest, every job whose key was in the store
\* at its start has been posted to a worker
C26_StoredJobsDispatchedAfterRestart ==
  Settled => \A k \in jobStore : dispatchCount[k.jobId] >= 1

\* the registered workers whose thread listens on its port
Live == { w \in Registered : wpc[w] = "running" }

\* C32: when the process has come to rest after a worker has posted 'I am
\* broken' from its uncaughtException handler, at least MinWorkers registered
\* workers listen on their port: the worker that broke was removed and replaced
C32_FaultedWorkerReplaced ==
  (Settled /\ \E m \in sentLog : m.action = "broken") =>
    Cardinality(Live) >= MinWorkers

\* C37: while a processJob invocation of a worker has loaded its job and has
\* not yet written IDLE, the store holds BUSY and that job id for the worker
C37_ProcessingIsPersisted ==
  \A w \in WorkerIds :
    \A c \in BagToSet(chains[w]) :
      c.pc = "setIdle" =>
        /\ w \in DOMAIN statusStore /\ statusStore[w] = BUSY
        /\ w \in DOMAIN wjobStore /\ wjobStore[w] = c.job

\* C38: the pool posts a job only to a worker that has posted response:ready
C38_DispatchOnlyAfterReady ==
  Posted => Ready(lastPost.worker) \in sentLog

\* C39: once initialize has run, and as long as no worker was added or removed
\* by a call, the number of registered workers is at least MinWorkers and at
\* most MaxWorkers
C39_WorkerCountWithinBounds ==
  (initialized /\ api.calls = 0) =>
    (Len(workers) >= MinWorkers /\ Len(workers) <= MaxWorkers)

\* the changes of Worker.status the state machine has
Transitions ==
  { << INITIALIZING, IDLE >>, << INITIALIZING, BUSY >>,
    << IDLE, BUSY >>, << BUSY, IDLE >>, << BUSY, TERMINATING >> }

Dropped ==
  { j \in Resolved : LoadJob(j) = { } /\ \A k \in pendingSet : k.jobId # j }

\* C33: the step in which the SET of addJob is rejected starts no assignment
\* pass, stores nothing and sends no further SET, and a job whose SET was
\* rejected is never posted to a worker nor processed
C33_FailedAddJobIsDropped ==
  [][ /\ AddJobFailed =>
           /\ passes' = passes
           /\ jobStore' = jobStore
           /\ pendingSet' \subseteq pendingSet
           /\ nextJob' = nextJob
      /\ \A j \in Dropped' :
           /\ dispatchCount'[j] = 0
           /\ j \notin finished'
           /\ \A w \in WorkerIds :
                /\ \A i \in DOMAIN inbox'[w] : inbox'[w][i] # j
                /\ \A c \in BagToSet(chains'[w]) : c.job # j
    ]_vars

\* C33 happens: the SET of one addJob was rejected, and a later addJob has
\* stored its job, which was posted to a worker and processed
C33_Witness ==
  \E j \in Dropped :
    \E k \in jobStore :
      /\ k.jobId > j
      /\ dispatchCount[k.jobId] >= 1
      /\ k.jobId \in finished

\* the store holds IDLE and no job id for worker w
IdleAndFree(w) ==
  /\ w \in DOMAIN statusStore /\ statusStore[w] = IDLE
  /\ w \in DOMAIN wjobStore => wjobStore[w] = NoJob

\* C35: a worker that listens on its port and has no onMessage invocation in
\* flight has IDLE and no job id in the store, and with fair scheduling every
\* worker that has an invocation in flight comes to have none, with IDLE and
\* no job id in the store
C35_ProcessingEndsIdle ==
  /\ [](\A w \in WorkerIds :
          (wpc[w] = "running" /\ chains[w] = EmptyBag) => IdleAndFree(w))
  /\ \A w \in WorkerIds :
       (chains[w] # EmptyBag) ~> (chains[w] = EmptyBag /\ IdleAndFree(w))

\* C35 happens: a worker has processed a dispatched job to its end, has no
\* invocation in flight and has IDLE and the empty job id in the store
C35_Witness ==
  \E w \in WorkerIds :
    /\ wpc[w] = "running"
    /\ chains[w] = EmptyBag
    /\ finished # { }
    /\ w \in DOMAIN wjobStore /\ wjobStore[w] = NoJob
    /\ statusStore[w] = IDLE

\* C36: every chunk chunkMessage returns is at most maxLength long, and a text
\* of at most maxLength characters comes back as the one chunk [text]
C36_ChunksWithinMaxLength ==
  chunk.done =>
    /\ \A i \in DOMAIN chunk.out : Len(chunk.out[i]) <= chunk.maxLength
    /\ Len(chunk.text) <= chunk.maxLength => chunk.out = << chunk.text >>

\* the entries of the configuration that are in order
Usable(config) == { i \in DOMAIN config : Constructs(config[i]) }

\* C31: a worker started with a configuration that has an entry with an
\* unknown engine or a digitalocean entry without auth.bearer gets through
\* setupLLMClients, holds a client for every other entry in Worker.llmClients
\* and goes on to post response:ready
C31_BadEngineIsSkipped ==
  (setup.pc \notin { "none", "start" } /\ Usable(setup.config) # DOMAIN setup.config) =>
    /\ setup.pc \in { "redis", "running" }
    /\ setup.llmClients = Usable(setup.config)
====
